---- MODULE Spec2Model ----
(***************************************************************************)
(* NextPreviousMixin (src/next_previous/__init__.py): retrieval of the     *)
(* "next" and "previous" objects of a model instance relative to the       *)
(* model's Meta.ordering, with the per-instance result caches.             *)
(*                                                                         *)
(* One model instance (self) is observed over a fixed table (db).  Rows    *)
(* are records [pk, f1, f2, user]; the model class orders by               *)
(* ('f1', '-f2'); f1 is a nullable column.  A query is one call of         *)
(* _get_next_or_previous; its answer is taken as the list of the rows'     *)
(* primary keys.  The queryset is ordered by Meta.ordering only, so the    *)
(* order of rows that tie on f1 and f2 is the database's choice; so is     *)
(* the end of the order at which NULL sorts.                               *)
(***************************************************************************)
EXTENDS Integers, Sequences, FiniteSets

\* ---------------------------------------------------------------- bounds
MaxRecords == 3
MaxVal == 2
NumUsers == 2
MaxNum == 2

\* ---------------------------------------------------------------- values
\* Python's None (an attribute without value, SQL NULL, the padding of around).
None == 0
\* The instance itself as an element of around()'s list.
SelfRef == -1

Pks == 1..MaxRecords
FVals == 1..MaxVal
Users == 1..NumUsers
Nums == 1..MaxNum

\* Meta.ordering of the model class: a leading '-' is a descending field.
ordering == << [field |-> "f1", desc |-> FALSE], [field |-> "f2", desc |-> TRUE] >>

\* The keyword arguments a caller passes on to QuerySet.filter: none, or
\* user=u for a user other than the instance's own (user 1).
Kwargs == {{}} \cup {{<<"user", u>>} : u \in Users \ {1}}

\* The tables with one row per pk and the rows' columns drawn from cols.
Tables(cols) ==
  {{[pk |-> i, f1 |-> t[i].f1, f2 |-> t[i].f2, user |-> t[i].user] : i \in Pks} :
     t \in [Pks -> cols]}

\* One user's rows: f1 is a nullable column, f2 is not.
TablesOrdering == Tables([f1 : FVals \cup {None}, f2 : FVals, user : {1}])

\* Several users' rows, all with the same f2 and with a value of f1.
TablesUsers == Tables([f1 : FVals, f2 : {1}, user : Users])

\* One user's rows with the same f1, of which exactly one pair of neighbouring
\* rows (j and j + 1) has the same f2.
TablesCache ==
  {{[pk |-> i, f1 |-> 1, f2 |-> IF i <= j THEN i ELSE i - 1, user |-> 1] : i \in Pks} :
     j \in 1..(MaxRecords - 1)}

\* An instance that was never saved: no pk and no field values yet.
Unsaved == [pk |-> None, f1 |-> None, f2 |-> None, user |-> 1]

VARIABLES
  db,            \* the table: the rows of _default_manager.all()
  self,          \* the instance the methods are called on
  scoped,        \* the class overrides next_previous_filter (same user)
  nextCache,     \* self._next_items_cache: <<>> or <<[num, results]>>
  prevCache,     \* self._previous_items_cache
  ret,           \* the last call, its arguments, its return value, its queries
  maxNext,       \* largest num requested so far of direction next
  maxPrev        \* largest num requested so far of direction previous

vars == <<db, self, scoped, nextCache, prevCache, ret, maxNext, maxPrev>>

Min(a, b) == IF a <= b THEN a ELSE b
Max(a, b) == IF a >= b THEN a ELSE b

Row(pk) == CHOOSE r \in db : r.pk = pk

\* ------------------------------------------------- _get_next_or_previous
\* The lookup operator of one ordering entry: 'gt' for an ascending field and
\* 'lt' for a descending one when looking forward, inverted backward.
op(entry, next) ==
  IF entry.desc
    THEN (IF next THEN "lt" ELSE "gt")
    ELSE (IF next THEN "gt" ELSE "lt")

\* list(self._meta.ordering) + ['pk']
orderingPk == ordering \o << [field |-> "pk", desc |-> FALSE] >>

\* The parallel lists fields/operator: the entries of ordering + pk whose value
\* on the instance is not None, each with its lookup operator.
fields(inst, next) ==
  LET present(e) == inst[e.field] # None
      kept == SelectSeq(orderingPk, present)
  IN  [i \in 1..Len(kept) |-> [field |-> kept[i].field, op |-> op(kept[i], next)]]

\* One field lookup of a Q object on a row, as SQL evaluates it: a comparison
\* with a NULL column is not true.
lookup(row, field, oper, value) ==
  /\ row[field] # None
  /\ CASE oper = "gt" -> row[field] > value
       [] oper = "lt" -> row[field] < value
       [] OTHER -> row[field] = value

\* inner: (f_idx > self.f_idx) & (f_[idx-1] = self.f_[idx-1]) & ... & (f_1 = self.f_1)
inner(inst, fo, idx, row) ==
  /\ lookup(row, fo[idx].field, fo[idx].op, inst[fo[idx].field])
  /\ \A j \in 1..(idx - 1) : lookup(row, fo[j].field, "exact", inst[fo[j].field])

\* q: the disjunction of the inner clauses.  Q() with nothing or-ed into it is
\* the empty Q, and filter(Q()) restricts nothing.
q(inst, next, row) ==
  LET fo == fields(inst, next)
  IN  IF Len(fo) = 0 THEN TRUE
      ELSE \E idx \in 1..Len(fo) : inner(inst, fo, idx, row)

\* next_previous_filter: the identity, or the override of the class docstring
\* (qs.filter(user=self.user_id)).
next_previous_filter(inst, qs) ==
  IF scoped THEN {r \in qs : r.user = inst.user} ELSE qs

\* .filter(**kwargs)
filter_kwargs(qs, kw) == {r \in qs : \A p \in kw : r[p[1]] = p[2]}

\* next_previous_filter(all()).filter(**kwargs).filter(q)
matching(inst, next, kw) ==
  {r \in filter_kwargs(next_previous_filter(inst, db), kw) : q(inst, next, r)}

\* The sort key of a column value: the database puts NULL at one end.
sortKey(v, nullsLargest) == IF v = None THEN (IF nullsLargest THEN MaxVal + 1 ELSE 0) ELSE v

\* Row a sorts strictly before row b in ORDER BY Meta.ordering (every direction
\* flipped by .reverse() when looking backward).  The pk is not in the ORDER BY.
sortsBefore(a, b, next, nl) ==
  \E i \in 1..Len(ordering) :
    /\ \A j \in 1..(i - 1) : a[ordering[j].field] = b[ordering[j].field]
    /\ IF ordering[i].desc = next
         THEN sortKey(a[ordering[i].field], nl) > sortKey(b[ordering[i].field], nl)
         ELSE sortKey(a[ordering[i].field], nl) < sortKey(b[ordering[i].field], nl)

\* qs[:num]: every list of pks the database may answer with: the first num rows
\* of the matching rows in an order that respects the ORDER BY, with NULL at
\* either end (nl); rows that tie come in any order.
queryResults(inst, next, num, kw) ==
  LET M == matching(inst, next, kw)
      n == Min(num, Cardinality(M))
      P == {r.pk : r \in M}
  IN  {s \in [1..n -> P] : \E nl \in BOOLEAN :
         /\ \A i, j \in 1..n : i < j =>
              /\ s[i] # s[j]
              /\ ~sortsBefore(Row(s[j]), Row(s[i]), next, nl)
         /\ \A r \in M : (\A i \in 1..n : s[i] # r.pk) =>
              \A i \in 1..n : ~sortsBefore(r, Row(s[i]), next, nl)}

\* ------------------------------------------ _cached_get_next_or_previous
cacheOf(next) == IF next THEN nextCache ELSE prevCache

\* cacheHit with the comparison off by one: an equal count is queried again.
cacheHitStrict(cached, num) == cached # <<>> /\ num < cached[1].num

\* The cache entry is used: it exists and num <= cached_num.
cacheHit(cached, num) == cached # <<>> /\ num <= cached[1].num

\* cached_results[:num]
slice(results, num) == SubSeq(results, 1, Min(num, Len(results)))

\* cachedGet that also stores what it serves from the cache, so that a smaller
\* request shrinks the entry.
cachedGetStoresSlice(next, num, kw) ==
  LET cached == cacheOf(next)
  IN  IF cacheHit(cached, num)
        THEN {<< slice(cached[1].results, num),
                 << [num |-> num, results |-> slice(cached[1].results, num)] >>, FALSE >>}
        ELSE {<< out, << [num |-> num, results |-> out] >>, TRUE >> :
                out \in queryResults(self, next, num, kw)}

\* The triples <<out, cache entry afterwards, a query was made>> the call may
\* end with.
cachedGet(next, num, kw) ==
  LET cached == cacheOf(next)
  IN  IF cacheHit(cached, num)
        THEN {<< slice(cached[1].results, num), cached, FALSE >>}
        ELSE {<< out, << [num |-> num, results |-> out] >>, TRUE >> :
                out \in queryResults(self, next, num, kw)}

\* ------------------------------------------ _get_next_or_previous_single
\* val[0], or None on IndexError, when num == 1; val otherwise.
single(num, val) ==
  IF num = 1
    THEN IF Len(val) >= 1
           THEN [kind |-> "record", items |-> << val[1] >>]
           ELSE [kind |-> "None", items |-> << >>]
    ELSE [kind |-> "list", items |-> val]

\* ------------------------------------------------------------------ ipad
\* islice(chain(iterable, repeat(value)), length)
ipad(iterable, value, length) ==
  [i \in 1..length |-> IF i <= Len(iterable) THEN iterable[i] ELSE value]

reversed(s) == [i \in 1..Len(s) |-> s[Len(s) + 1 - i]]

\* ---------------------------------------------------------------- state
NoCall == [op |-> "none", num |-> 0, kw |-> {}, kind |-> "None", items |-> << >>,
           queriedNext |-> FALSE, queriedPrev |-> FALSE]

Init ==
  /\ \/ db \in TablesOrdering /\ scoped = FALSE
     \/ db \in TablesUsers /\ scoped \in BOOLEAN
  /\ self \in {r \in db : r.user = 1} \cup {Unsaved}
  /\ nextCache = << >>
  /\ prevCache = << >>
  /\ ret = NoCall
  /\ maxNext = 0
  /\ maxPrev = 0

\* self.next(num=num, **kw)
CallNext(num, kw) ==
  \E t \in cachedGet(TRUE, num, kw) :
    /\ nextCache' = t[2]
    /\ ret' = [op |-> "next", num |-> num, kw |-> kw,
               kind |-> single(num, t[1]).kind, items |-> single(num, t[1]).items,
               queriedNext |-> t[3], queriedPrev |-> FALSE]
    /\ maxNext' = Max(maxNext, num)
    /\ UNCHANGED <<db, self, scoped, prevCache, maxPrev>>

\* self.previous(num=num, **kw)
CallPrevious(num, kw) ==
  \E t \in cachedGet(FALSE, num, kw) :
    /\ prevCache' = t[2]
    /\ ret' = [op |-> "previous", num |-> num, kw |-> kw,
               kind |-> single(num, t[1]).kind, items |-> single(num, t[1]).items,
               queriedNext |-> FALSE, queriedPrev |-> t[3]]
    /\ maxPrev' = Max(maxPrev, num)
    /\ UNCHANGED <<db, self, scoped, nextCache, maxNext>>

\* self.around(num=num, **kw): the previous items first, then the next ones.
CallAround(num, kw) ==
  \E tp \in cachedGet(FALSE, num, kw), tn \in cachedGet(TRUE, num, kw) :
    /\ prevCache' = tp[2]
    /\ nextCache' = tn[2]
    /\ ret' = [op |-> "around", num |-> num, kw |-> kw, kind |-> "list",
               items |-> reversed(ipad(tp[1], None, num)) \o << SelfRef >> \o tn[1],
               queriedNext |-> tn[3], queriedPrev |-> tp[3]]
    /\ maxPrev' = Max(maxPrev, num)
    /\ maxNext' = Max(maxNext, num)
    /\ UNCHANGED <<db, self, scoped>>

Next ==
  \/ \E num \in Nums, kw \in Kwargs : CallNext(num, kw)
  \/ \E num \in Nums, kw \in Kwargs : CallPrevious(num, kw)
  \/ \E num \in Nums, kw \in Kwargs : CallAround(num, kw)

Spec == Init /\ [][Next]_vars

\* The same instance and methods over the tables of TablesCache.
InitCache ==
  /\ db \in TablesCache /\ scoped = FALSE
  /\ self \in db \cup {Unsaved}
  /\ nextCache = << >>
  /\ prevCache = << >>
  /\ ret = NoCall
  /\ maxNext = 0
  /\ maxPrev = 0

SpecCache == InitCache /\ [][Next]_vars

\* ======================================================== the properties
\* What the last call got from _cached_get_next_or_previous of a direction (the
\* call r; around's list holds the previous items reversed and padded first).
calls(r, next) == r.op = "around" \/ r.op = (IF next THEN "next" ELSE "previous")

outOf(r, next) ==
  IF r.op # "around" THEN r.items
  ELSE IF next THEN SubSeq(r.items, r.num + 2, Len(r.items))
  ELSE LET rev == reversed(SubSeq(r.items, 1, r.num))
           IsRow(x) == x # None
       IN  SelectSeq(rev, IsRow)

queried(r, next) == IF next THEN r.queriedNext ELSE r.queriedPrev

\* One direction of C4, on a step that is a call of that direction.
C4Direction(next, before, after) ==
  calls(ret', next) =>
    /\ ~queried(ret', next) <=> (before # << >> /\ ret'.num <= before[1].num)
    /\ ~queried(ret', next) =>
         /\ outOf(ret', next) = SubSeq(before[1].results, 1, Len(outOf(ret', next)))
         /\ Len(outOf(ret', next)) = Min(ret'.num, Len(before[1].results))
    /\ queried(ret', next) =>
         /\ outOf(ret', next) \in queryResults(self, next, ret'.num, ret'.kw)
         /\ after = << [num |-> ret'.num, results |-> outOf(ret', next)] >>

C10Direction(next, before, after) ==
  /\ after # before =>
       /\ calls(ret', next)
       /\ before = << >> \/ ret'.num > before[1].num
       /\ after # << >> /\ after[1].num = ret'.num
  /\ (calls(ret', next) /\ (before = << >> \/ ret'.num > before[1].num)) =>
       (after # << >> /\ after[1].num = ret'.num)

C10Stored(cache, max) ==
  IF max = 0 THEN cache = << >> ELSE cache # << >> /\ cache[1].num = max

\* C10: the cache entry of a direction is created by the first call of that
\* direction and changes only when a call of that direction asks for more than
\* the stored count; the stored count is the largest count requested so far of
\* that direction, and the instance's field values never change.
InvC10 ==
  /\ [](C10Stored(nextCache, maxNext) /\ C10Stored(prevCache, maxPrev))
  /\ [][/\ C10Direction(TRUE, nextCache, nextCache')
        /\ C10Direction(FALSE, prevCache, prevCache')
        /\ self' = self /\ db' = db]_vars

\* A smaller request after a larger one left the entry of its direction as it
\* was, and the other direction has its own entry.
WitC10 ==
  /\ ret.op = "previous" /\ ret.num = 1 /\ ~ret.queriedPrev
  /\ prevCache # << >> /\ prevCache[1].num = 2 /\ maxPrev = 2
  /\ nextCache # << >> /\ nextCache[1].num = 1 /\ maxNext = 1

\* ------------------------------------------------ the order of the claims
\* The entries of ordering + pk that have a value on the reference.
effective(inst) ==
  LET present(e) == inst[e.field] # None
  IN  SelectSeq(orderingPk, present)

RECURSIVE lexBefore(_, _, _)
\* Row a is strictly before row b in the lexicographic order of the entries
\* ents (an ascending entry by <, a descending one by >).
lexBefore(a, b, ents) ==
  IF ents = << >> THEN FALSE
  ELSE LET f == Head(ents).field
       IN  IF a[f] = b[f] THEN lexBefore(a, b, Tail(ents))
           ELSE IF Head(ents).desc THEN a[f] > b[f] ELSE a[f] < b[f]

\* Row r is strictly after the reference (strictly before, looking backward).
beyond(inst, r, next, ents) ==
  IF next THEN lexBefore(inst, r, ents) ELSE lexBefore(r, inst, ents)

\* Every row and the reference have a value for every ordering field.
allPresent ==
  /\ \A e \in 1..Len(orderingPk) : self[orderingPk[e].field] # None
  /\ \A r \in db : \A e \in 1..Len(ordering) : r[ordering[e].field] # None

\* The qualifying rows of a call: in the scope, passing the keyword filters,
\* and beyond the reference in the order of ents.
qualifying(inst, next, kw, ents) ==
  {r \in filter_kwargs(next_previous_filter(inst, db), kw) : beyond(inst, r, next, ents)}

\* The pks of the num qualifying rows nearest to the reference, nearest first.
nearest(inst, next, num, kw, ents) ==
  LET C == qualifying(inst, next, kw, ents)
      n == Min(num, Cardinality(C))
  IN  CHOOSE s \in [1..n -> {r.pk : r \in C}] :
        /\ \A i, j \in 1..n : i < j => beyond(Row(s[i]), Row(s[j]), next, ents)
        /\ \A r \in C : (\A i \in 1..n : s[i] # r.pk) =>
             \A i \in 1..n : beyond(Row(s[i]), r, next, ents)

\* C1: the adjacency predicate is true of a candidate exactly when the
\* candidate's tuple of effective fields (of any length, zero included) is
\* lexicographically strictly after the reference's (before, looking backward);
\* so the next set, the previous set and the reference are pairwise disjoint
\* and cover the candidates.
ClaimC1 ==
  LET ents == effective(self)
      valued == {r \in db : \A e \in 1..Len(ents) : r[ents[e].field] # None}
      nexts == {r \in db : q(self, TRUE, r)}
      prevs == {r \in db : q(self, FALSE, r)}
  IN  /\ \A r \in valued : \A next \in BOOLEAN :
           q(self, next, r) <=> beyond(self, r, next, ents)
      /\ nexts \cap prevs = {}
      /\ self \notin nexts \cup prevs
      /\ db \subseteq nexts \cup prevs \cup {self}

\* C2: an uncached next(count=k) or previous(count=k) of a reference with all
\* ordering values present returns the (at most k) qualifying records nearest to
\* the reference in the total order (declared ordering, then pk), nearest first,
\* none skipped; among records that tie with the reference on the declared
\* fields, the one with the nearest pk comes first.
ClaimC2 ==
  \A next \in BOOLEAN :
    (/\ ret.op = (IF next THEN "next" ELSE "previous")
     /\ queried(ret, next)
     /\ allPresent)
    => ret.items = nearest(self, next, ret.num, ret.kw, orderingPk)

\* The values p.next() (p.previous() when not next) may return for the row p
\* loaded by a query: p is a new instance, with no cache entries.
singleOf(p, next) == {single(1, out) : out \in queryResults(p, next, 1, {})}

\* C3: round trip: when r.previous() is a record p and p.next() is a record,
\* p.next() is r; and the same for r.next().previous().
ClaimC3 ==
  \A next \in BOOLEAN :
    (/\ ret.op = (IF next THEN "next" ELSE "previous")
     /\ ret.num = 1 /\ ret.kw = {} /\ queried(ret, next)
     /\ ret.kind = "record"
     /\ allPresent)
    => \A back \in singleOf(Row(ret.items[1]), ~next) :
         back.kind = "record" => back.items[1] = self.pk

\* C5: every record a call of next or previous returns satisfies the extra
\* filters given to that call, whatever calls came before.
ClaimC5 ==
  ret.op \in {"next", "previous"} =>
    \A i \in 1..Len(ret.items) : Row(ret.items[i]) \in filter_kwargs(db, ret.kw)

\* C6: around(count) returns a list: count slots with the preceding records,
\* nearest last, padded with None on the left, then the reference itself at
\* index count, then up to count following records, nearest first, unpadded.
ClaimC6 ==
  (ret.op = "around" /\ ret.kw = {} /\ allPresent) =>
    /\ ret.kind = "list"
    /\ ret.items =
         reversed(ipad(nearest(self, FALSE, ret.num, {}, orderingPk), None, ret.num))
         \o << SelfRef >>
         \o nearest(self, TRUE, ret.num, {}, orderingPk)

ClaimC8 ==
  \A next \in BOOLEAN :
    ret.op = (IF next THEN "next" ELSE "previous") =>
      IF ret.num = 1
        THEN /\ ret.kind \in {"None", "record"}
             /\ ret.kind = "None" <=> matching(self, next, ret.kw) = {}
        ELSE ret.kind = "list"

\* No two rows have the same values on the declared ordering fields.
noTies ==
  \A a, b \in db :
    (\A e \in 1..Len(ordering) : a[ordering[e].field] = b[ordering[e].field]) => a = b

\* C9: for a saved reference without a value on its first ordering field, that
\* field is left out of the lookup and next()/previous() return the record
\* nearest to the reference in the lexicographic order of the remaining
\* ordering fields and the pk (stated here for tables whose other rows have
\* the value and where no two rows tie on the declared fields).
ClaimC9 ==
  \A next \in BOOLEAN :
    (/\ ret.op = (IF next THEN "next" ELSE "previous")
     /\ ret.num = 1 /\ ret.kw = {} /\ queried(ret, next)
     /\ self.f1 = None /\ self.f2 # None /\ self.pk # None
     /\ \A r \in db \ {self} : r.f1 # None
     /\ noTies)
    => ret.items = nearest(self, next, 1, {}, effective(self))

====
